---- MODULE Spec2Model ----
(***************************************************************************)
(* Model of the "ponto" time-clock application: the GithubJSONStore        *)
(* (load / commit / append_with_retry / replace_record) talking to the     *)
(* remote contents API, the identifier generator, and the Streamlit        *)
(* callbacks that drive the store from several independent sessions.       *)
(*                                                                         *)
(* One step of the model is one blocking network call of one session (a    *)
(* GET or a PUT) together with the local code that runs on its response,   *)
(* up to the next network call; or the local code that a click or a call   *)
(* starts, up to its first network call: a callback up to the GET of its   *)
(* store method, the script started by "Salvar edição" up to the GET of    *)
(* its own load; or the local code that runs when time.sleep returns, up   *)
(* to the next network call.  Sessions interleave only where a thread      *)
(* waits: at network calls and in time.sleep; inside one session the code  *)
(* is single-threaded.                                                     *)
(***************************************************************************)
EXTENDS Integers, Sequences, FiniteSets, TLC

(***************************************************************************)
(* Bounds of the model.                                                    *)
(***************************************************************************)
\* the wall clock runs over the milliseconds 1..MaxTime
MaxTime == 1
\* user actions (button clicks) and direct calls over all sessions
MaxCalls == 3
\* the same, where termination is checked
MaxLiveCalls == 2
\* identifier generation on its own: the identifiers and clock readings run
\* over 1..MaxGen, and at most MaxGen identifiers are generated
MaxGen == 3

Sessions == {1, 2}

\* max_retries: int = 3
DEFAULT_MAX_RETRIES == 3

(***************************************************************************)
(* Python / JSON values.                                                   *)
(*                                                                         *)
(* An identifier is a JSON number or a JSON string; it is kept as its type *)
(* and its text, so that str() and int() are real conversions: the integer *)
(* 1 and the string "1" are different identifiers with the same str().     *)
(***************************************************************************)
Digit(d) ==
    CASE d = 0 -> "0" [] d = 1 -> "1" [] d = 2 -> "2" [] d = 3 -> "3"
      [] d = 4 -> "4" [] d = 5 -> "5" [] d = 6 -> "6" [] d = 7 -> "7"
      [] d = 8 -> "8" [] d = 9 -> "9"

RECURSIVE IntToStr(_)
IntToStr(n) == IF n < 10 THEN Digit(n) ELSE IntToStr(n \div 10) \o Digit(n % 10)

JInt(n) == [ty |-> "int", s |-> IntToStr(n)]
JStr(t) == [ty |-> "str", s |-> t]

\* every integer an identifier of the model can hold
IntRange == 0 .. (MaxTime + MaxCalls + 2)

\* str(x): the decimal text of an int, the string itself for a string
py_str(v) == v.s

\* int(x) succeeds on an int and on a string holding a decimal numeral
int_ok(v) == \E n \in IntRange : IntToStr(n) = v.s
py_int(v) == CHOOSE n \in IntRange : IntToStr(n) = v.s

\* bool(x) of an Optional[str] token: None and "" are falsy
NoSha == 0
truthy(tok) == tok # NoSha

(***************************************************************************)
(* Bytes stored at the path, and what json.loads makes of them.            *)
(***************************************************************************)
Garbage == [kind |-> "garbage", recs |-> <<>>]      \* "{not json"
JsonObject == [kind |-> "object", recs |-> <<>>]    \* "{}": JSON, not an array
JsonArray(recs) == [kind |-> "array", recs |-> recs]
NoContent == [kind |-> "none", recs |-> <<>>]

PyList(recs) == [kind |-> "list", recs |-> recs]
PyDict == [kind |-> "dict", recs |-> <<>>]
NoData == [kind |-> "unset", recs |-> <<>>]

\* json.loads raises on bytes that are not JSON
json_parses(content) == content.kind \in {"array", "object"}
json_loads(content) ==
    IF content.kind = "array" THEN PyList(content.recs) ELSE PyDict

\* json.dumps(data, ensure_ascii=False, indent=2)
json_dumps(d) ==
    IF d.kind = "list" THEN JsonArray(d.recs) ELSE JsonObject

(***************************************************************************)
(* Records and identifiers (app.py).                                       *)
(***************************************************************************)
\* app.py, RegistroPonto.novo(...).to_dict(): the fields the store and the
\* claims read; the id is the generated integer
RegistroPonto_novo(id_int, dt, label) ==
    [id |-> JInt(id_int), time |-> dt, label |-> label]

\* models.py, RegistroPonto.novo(...).to_dict(): the id is str(uuid.uuid4())
models_novo(uuid, dt, label) ==
    [id |-> JStr(uuid), time |-> dt, label |-> label]

\* the records a loaded value iterates over (a dict {} has none)
records_of(d) == IF d.kind = "list" THEN d.recs ELSE <<>>

\* existing_ids_int: the ids that int() accepts, the others are skipped
existing_ids_int(records) ==
    { py_int(records[i].id) :
        i \in { j \in DOMAIN records : int_ok(records[j].id) } }

\* mutant: "if base in existing" in place of "while": one bump only
generate_decimal_id_once(existing, base) ==
    IF base \in existing THEN base + 1 ELSE base

\* generate_decimal_id, with the millisecond clock read passed as base
RECURSIVE generate_decimal_id(_, _)
generate_decimal_id(existing, base) ==
    IF base \in existing
    THEN generate_decimal_id(existing, base + 1)
    ELSE base

(***************************************************************************)
(* State.                                                                  *)
(***************************************************************************)
VARIABLES
    remote,       \* the object at the path: [exists, content, sha]
    now,          \* the wall clock, in milliseconds
    calls,        \* user actions started so far
    pc,           \* per session: where its code stands
    op,           \* per session: the store operation its callback runs
    record,       \* append_with_retry's argument
    record_id,    \* replace_record's arguments
    new_time,
    max_retries,  \* append_with_retry's argument
    attempt,      \* the loop index of append_with_retry
    data,         \* the local list of append_with_retry / replace_record
    sha,          \* the token load returned to the method
    new_sha,      \* what commit returned (NoSha: None)
    status,       \* r.status_code of the session's last response
    ret,          \* how the store operation ended
    sleeps,       \* time.sleep(sleep_seconds) calls of append_with_retry so far
    dt_sel,       \* _save_manual's arguments
    allow_future,
    app_data,     \* the module-level "data" of the script run
    current_sha,  \* the module-level "current_sha" of the script run
    edit_save_btn,     \* the script run was started by a click on "Salvar edição"
    edit_choice_label, \*   with this option of the selectbox chosen
    edit_time_picker,  \*   and this time in the time input
    quiet,        \* history: no other session wrote since the call began
    raced,        \* history: another session wrote since this attempt's load
    overslept,    \* history: another session wrote while this call was in time.sleep
    writes,       \* history: commits of the current call the remote accepted
    conflicts,    \* history: commits of the current call rejected with 409
    acked,        \* history: records whose append_with_retry returned True
    discarded,    \* history: the last accepted write replaced bytes that were no JSON
    gen_existing, \* identifier generation on its own: the set,
    gen_base,     \*   the clock reading,
    gen_ids       \*   and the identifiers generated so far

store_vars == <<pc, op, record, record_id, new_time, max_retries, attempt,
                data, sha, new_sha, status, ret, app_data, current_sha,
                sleeps, dt_sel, allow_future,
                edit_save_btn, edit_choice_label, edit_time_picker>>
hist_vars == <<quiet, raced, overslept, writes, conflicts, acked, discarded>>
gen_vars == <<gen_existing, gen_base, gen_ids>>
vars == <<remote, now, calls, store_vars, hist_vars, gen_vars>>

(***************************************************************************)
(* The remote contents API (one path, one branch).                         *)
(*                                                                         *)
(* GET answers 200 with the bytes and the token, or 404.  PUT is a         *)
(* compare-and-swap on the token: it creates the object when none exists   *)
(* and no token is sent, replaces it when the token sent is the current    *)
(* one, answers 409 when the token is stale and 422 when a token is        *)
(* missing for an existing object.  Every accepted write yields a new      *)
(* token.  Any call may instead fail with another status (here 500), in    *)
(* which case nothing is written.                                          *)
(***************************************************************************)
remote_get(fail) ==
    IF fail THEN [status |-> 500, content |-> NoContent, sha |-> NoSha]
    ELSE IF remote.exists
    THEN [status |-> 200, content |-> remote.content, sha |-> remote.sha]
    ELSE [status |-> 404, content |-> NoContent, sha |-> NoSha]

put_status(tok, fail) ==
    IF fail THEN 500
    ELSE IF ~remote.exists THEN (IF tok = NoSha THEN 201 ELSE 404)
    ELSE IF tok = NoSha THEN 422
    ELSE IF tok = remote.sha THEN 200
    ELSE 409

remote_put(content, tok, fail) ==
    LET st == put_status(tok, fail) IN
    IF st \in {200, 201}
    THEN [status |-> st, sha |-> remote.sha + 1,
          remote |-> [exists |-> TRUE, content |-> content, sha |-> remote.sha + 1]]
    ELSE [status |-> st, sha |-> NoSha, remote |-> remote]

(***************************************************************************)
(* GithubJSONStore and its callers: the local code, as functions from the  *)
(* response just received to the session's next local state.               *)
(***************************************************************************)
NoRecord == [id |-> JStr(""), time |-> 0, label |-> ""]
\* no option of the selectbox
NoLabel == [time |-> 0, id |-> ""]

\* the locals of a session whose script is about to run
Fresh ==
    [pc |-> "run", op |-> "none", record |-> NoRecord, record_id |-> JStr(""),
     new_time |-> 0, max_retries |-> 0, attempt |-> 0, data |-> NoData,
     sha |-> NoSha, new_sha |-> NoSha, status |-> 0, ret |-> "none",
     sleeps |-> 0, dt_sel |-> 0, allow_future |-> FALSE,
     app_data |-> NoData, current_sha |-> NoSha,
     edit_save_btn |-> FALSE, edit_choice_label |-> NoLabel,
     edit_time_picker |-> 0]

\* the locals of session s
Frame(s) ==
    [pc |-> pc[s], op |-> op[s], record |-> record[s], record_id |-> record_id[s],
     new_time |-> new_time[s], max_retries |-> max_retries[s],
     attempt |-> attempt[s], data |-> data[s], sha |-> sha[s],
     new_sha |-> new_sha[s], status |-> status[s], ret |-> ret[s],
     sleeps |-> sleeps[s], dt_sel |-> dt_sel[s], allow_future |-> allow_future[s],
     app_data |-> app_data[s], current_sha |-> current_sha[s],
     edit_save_btn |-> edit_save_btn[s],
     edit_choice_label |-> edit_choice_label[s],
     edit_time_picker |-> edit_time_picker[s]]

\* the method returns v to the callback; the script then runs again
Returned(f, v) ==
    [f EXCEPT !.pc = "run", !.ret = v, !.data = NoData, !.sha = NoSha]

\* a RuntimeError (or another exception) leaves the method and the callback
Raised(f) ==
    [f EXCEPT !.pc = "run", !.ret = "raised", !.data = NoData, !.sha = NoSha]

\* mutant: no try/except around json.loads; what is no array is kept as it is
load_200_unguarded(resp) ==
    [data |-> json_loads(resp.content), sha |-> resp.sha]

\* mutant: the token is read inside the try, after json.loads, and is lost
\* with the bytes when they do not parse
load_200_sha_in_try(resp) ==
    IF json_parses(resp.content)
    THEN [data |-> json_loads(resp.content), sha |-> resp.sha]
    ELSE [data |-> PyList(<<>>), sha |-> NoSha]

\* load, status 200: (data, sha), with data = [] when the bytes do not parse
load_200(resp) ==
    [data |-> IF json_parses(resp.content)
              THEN json_loads(resp.content)
              ELSE PyList(<<>>),
     sha |-> resp.sha]

\* load, status 404: the PUT that creates "[]", sent without a token
load_create_payload ==
    [content |-> json_dumps(PyList(<<>>)), sha |-> NoSha]

\* mutant: the token read at the wrong level of the response, giving None
load_created_no_sha(cr) == [data |-> PyList(<<>>), sha |-> NoSha]

\* mutant: the answer to the creating PUT is not looked at
load_created_ok_any(cr) == TRUE

\* load, after the creating PUT: ([], sha) on 200/201, RuntimeError otherwise
load_created_ok(cr) == cr.status \in {200, 201}
load_created(cr) == [data |-> PyList(<<>>), sha |-> cr.sha]

\* mutant: "if sha: payload['sha'] = sha" is missing, no write has a token
commit_payload_no_sha(d, tok) ==
    [content |-> json_dumps(d), sha |-> NoSha]

\* commit: the PUT it sends; the token goes along only when it is truthy
commit_payload(d, tok) ==
    [content |-> json_dumps(d), sha |-> IF truthy(tok) THEN tok ELSE NoSha]

\* mutant: a conflict raises like any other error
commit_raises_on_conflict(r) == r.status \notin {200, 201}

\* mutant: only 201 (created) counts as success, an update (200) gives None
commit_result_created_only(r) == IF r.status = 201 THEN r.sha ELSE NoSha

\* commit: the new token on 200/201, None on 409, RuntimeError otherwise
commit_raises(r) == r.status \notin {200, 201, 409}
commit_result(r) == IF r.status \in {200, 201} THEN r.sha ELSE NoSha

\* mutant: the token of the script's load is sent, not the one just loaded
append_loaded_stale_sha(f, ld) ==
    IF ld.data.kind = "list"
    THEN [f EXCEPT !.data = PyList(Append(ld.data.recs, f.record)),
                   !.sha = f.current_sha, !.pc = "commit"]
    ELSE Raised(f)

\* mutant: data.insert(0, record)
append_loaded_front(f, ld) ==
    IF ld.data.kind = "list"
    THEN [f EXCEPT !.data = PyList(<<f.record>> \o ld.data.recs),
                   !.sha = ld.sha, !.pc = "commit"]
    ELSE Raised(f)

\* mutant: the record is appended to the script's snapshot, not to what
\* load returned
append_loaded_cached(f, ld) ==
    IF ld.data.kind = "list"
    THEN [f EXCEPT !.data = PyList(Append(records_of(f.app_data), f.record)),
                   !.sha = ld.sha, !.pc = "commit"]
    ELSE Raised(f)

\* append_with_retry: data.append(record) on what load returned
\* (a value that is no list has no append: AttributeError)
append_loaded(f, ld) ==
    IF ld.data.kind = "list"
    THEN [f EXCEPT !.data = PyList(Append(ld.data.recs, f.record)),
                   !.sha = ld.sha, !.pc = "commit"]
    ELSE Raised(f)

\* mutant: "if new_sha: return True" is missing, the loop runs on
append_committed_again(f, tok) ==
    [f EXCEPT !.new_sha = tok, !.sleeps = f.sleeps + 1, !.pc = "sleep"]

\* append_with_retry: after commit returned tok, "if new_sha: return True";
\* else time.sleep(sleep_seconds) is called and the thread waits in it, the
\* turn of the loop not over
append_committed(f, tok) ==
    IF truthy(tok)
    THEN Returned([f EXCEPT !.new_sha = tok], "true")
    ELSE [f EXCEPT !.new_sha = tok, !.sleeps = f.sleeps + 1, !.pc = "sleep"]

\* mutant: one turn too few, "for attempt in range(max_retries - 1)"
append_slept_one_less(f) ==
    IF f.attempt + 2 < f.max_retries
    THEN [f EXCEPT !.attempt = f.attempt + 1,
                   !.pc = "load", !.data = NoData, !.sha = NoSha]
    ELSE Returned(f, "false")

\* mutant: one turn too many, "for attempt in range(max_retries + 1)"
append_slept_one_more(f) ==
    IF f.attempt < f.max_retries
    THEN [f EXCEPT !.attempt = f.attempt + 1,
                   !.pc = "load", !.data = NoData, !.sha = NoSha]
    ELSE Returned(f, "false")

\* append_with_retry: time.sleep has returned; the next turn of
\* "for attempt in range(max_retries)", up to the GET of its load, or, the
\* range used up, "return False"
append_slept(f) ==
    IF f.attempt + 1 < f.max_retries
    THEN [f EXCEPT !.attempt = f.attempt + 1,
                   !.pc = "load", !.data = NoData, !.sha = NoSha]
    ELSE Returned(f, "false")

\* who called replace_record takes what it returned.  The edit handler is
\* part of the script (its data is bound): on True it calls st.rerun(), on
\* False it shows st.error and the script runs to its end, the page shown
\* with the data loaded before the call.  Another caller just goes on.
replace_returned(f, v) ==
    IF f.app_data = NoData \/ v = "true"
    THEN Returned(f, v)
    ELSE [Returned(f, v) EXCEPT !.pc = "idle"]

\* replace_record: the first record with str(r.get("id")) == str(record_id)
replace_matches(recs, rid) ==
    { i \in DOMAIN recs : py_str(recs[i].id) = py_str(rid) }
\* mutant: no break, the last match is the one changed
replace_last(recs, rid) ==
    CHOOSE i \in replace_matches(recs, rid) :
        \A j \in replace_matches(recs, rid) : i >= j

replace_first(recs, rid) ==
    CHOOSE i \in replace_matches(recs, rid) :
        \A j \in replace_matches(recs, rid) : i <= j

\* mutant: the record found is taken out and put back, changed, at the end
replace_loaded_moved(f, ld) ==
    LET recs == records_of(ld.data)
        k == replace_first(recs, f.record_id)
    IN IF replace_matches(recs, f.record_id) = {}
       THEN Returned(f, "false")
       ELSE [f EXCEPT !.data = PyList(Append(
                                 [i \in 1 .. (Len(recs) - 1) |->
                                    IF i < k THEN recs[i] ELSE recs[i + 1]],
                                 [recs[k] EXCEPT !.time = f.new_time])),
                      !.sha = ld.sha, !.pc = "commit"]

\* mutant: "if not found: return False" is missing, the list is committed
\* as it was loaded
replace_loaded_always(f, ld) ==
    LET recs == records_of(ld.data) IN
    IF replace_matches(recs, f.record_id) = {}
    THEN [f EXCEPT !.data = PyList(recs), !.sha = ld.sha, !.pc = "commit"]
    ELSE [f EXCEPT !.data = PyList([recs EXCEPT
                                      ![replace_first(recs, f.record_id)].time = f.new_time]),
                   !.sha = ld.sha, !.pc = "commit"]

\* replace_record: after load; sets r["time"] and breaks, or returns False
replace_loaded(f, ld) ==
    LET recs == records_of(ld.data) IN
    IF replace_matches(recs, f.record_id) = {}
    THEN replace_returned(f, "false")
    ELSE [f EXCEPT !.data = PyList([recs EXCEPT
                                      ![replace_first(recs, f.record_id)].time = f.new_time]),
                   !.sha = ld.sha, !.pc = "commit"]

\* replace_record: return bool(new_sha)
\* mutant: on a conflict the method loads again and commits again
replace_committed_retry(f, tok) ==
    IF truthy(tok)
    THEN Returned([f EXCEPT !.new_sha = tok], "true")
    ELSE [f EXCEPT !.new_sha = tok, !.pc = "load", !.data = NoData, !.sha = NoSha]

replace_committed(f, tok) ==
    replace_returned([f EXCEPT !.new_sha = tok], IF truthy(tok) THEN "true" ELSE "false")

\* replace_record(path, record_id, new_time), up to the GET of its load
replace_called(f, rid, t) ==
    [f EXCEPT !.op = "replace", !.record_id = rid, !.new_time = t, !.pc = "load"]

\* the edit tab: registros_edit.sort(key=_key_time), a stable sort: the
\* place of a record is the number of records that come no later than it,
\* those with the same time counting when they stand before it
sort_place(recs, i) ==
    Cardinality({ j \in DOMAIN recs :
                    \/ recs[j].time < recs[i].time
                    \/ recs[j].time = recs[i].time /\ j <= i })

sort_by_time(recs) ==
    [p \in DOMAIN recs |->
        recs[CHOOSE i \in DOMAIN recs : sort_place(recs, i) = p]]

\* the edit tab: entries, (display, str(rec_id)) for each record shown; the
\* display names the time and the id
edit_entries(recs) ==
    LET shown == sort_by_time(recs)
    IN [i \in DOMAIN shown |->
          [display |-> [time |-> shown[i].time, id |-> py_str(shown[i].id)],
           id |-> JStr(py_str(shown[i].id))]]

\* st.selectbox(options=labels, key=...): the label chosen before if it is
\* still an option, the first option if not
selectbox(entries, chosen) ==
    IF \E i \in DOMAIN entries : entries[i].display = chosen
    THEN chosen
    ELSE entries[1].display

\* chosen_id = next((e[1] for e in entries if e[0] == choice_label), None)
chosen_id(entries, choice_label) ==
    LET k == CHOOSE i \in DOMAIN entries :
                 /\ entries[i].display = choice_label
                 /\ \A j \in 1 .. (i - 1) : entries[j].display # choice_label
    IN entries[k].id

\* the script, its load done, reaches the edit tab with "Salvar edição"
\* pressed: without records there is no button; else replace_record is
\* called, up to the GET of its load, with the id chosen and the time of the
\* picker (a time read from the clock before, never refused as a future time)
edit_handler(f, chosen, t) ==
    LET entries == edit_entries(records_of(f.app_data))
    IN IF entries = <<>>
       THEN f
       ELSE replace_called(f, chosen_id(entries, selectbox(entries, chosen)), t)

\* the script: data, current_sha = store.load(GITHUB_PATH); the form is
\* shown, and in a run started by "Salvar edição" the edit handler runs
script_loaded(f, ld) ==
    LET page == [Fresh EXCEPT !.pc = "idle", !.status = f.status,
                              !.app_data = ld.data, !.current_sha = ld.sha]
    IN IF f.edit_save_btn
       THEN edit_handler(page, f.edit_choice_label, f.edit_time_picker)
       ELSE page

\* the script: st.error(...); st.stop(); the next run starts over
script_failed(f) == [Fresh EXCEPT !.status = f.status]

\* who called load takes what it returned
after_load(f, ld) ==
    IF f.pc \in {"run", "run_put"} THEN script_loaded(f, ld)
    ELSE IF f.op = "append" THEN append_loaded(f, ld)
    ELSE replace_loaded(f, ld)

\* mutant: a store method swallows the error of load and loads again
load_raised_retry(f) ==
    IF f.pc \in {"run", "run_put"} THEN script_failed(f)
    ELSE [f EXCEPT !.pc = "load"]

\* who called load takes its RuntimeError
load_raised(f) ==
    IF f.pc \in {"run", "run_put"} THEN script_failed(f) ELSE Raised(f)

\* load, after the GET
load_got(f, r) ==
    IF r.status = 200 THEN after_load(f, load_200(r))
    ELSE IF r.status = 404
         THEN IF f.pc = "run"
              THEN [Fresh EXCEPT !.pc = "run_put", !.status = f.status,
                                 !.edit_save_btn = f.edit_save_btn,
                                 !.edit_choice_label = f.edit_choice_label,
                                 !.edit_time_picker = f.edit_time_picker]
              ELSE [f EXCEPT !.pc = "load_put"]
         ELSE load_raised(f)

\* load, after the creating PUT
load_put_done(f, cr) ==
    IF load_created_ok(cr) THEN after_load(f, load_created(cr)) ELSE load_raised(f)

\* mutant: every answer that is no success is taken as a conflict
after_commit_no_raise(f, r) ==
    IF f.op = "append" THEN append_committed(f, commit_result(r))
    ELSE replace_committed(f, commit_result(r))

\* who called commit takes its answer
after_commit(f, r) ==
    IF commit_raises(r) THEN Raised(f)
    ELSE IF f.op = "append" THEN append_committed(f, commit_result(r))
    ELSE replace_committed(f, commit_result(r))

(***************************************************************************)
(* Initial states: each session is about to run the script for the first   *)
(* time; the path holds nothing, bytes that are not JSON, JSON that is no  *)
(* array, the empty array, or an array of two records whose identifiers    *)
(* differ (1 and "1") but are the same when compared as strings.           *)
(***************************************************************************)
InitIds == <<JInt(1), JStr("1")>>

InitCollections ==
    { <<>>, [i \in DOMAIN InitIds |-> [id |-> InitIds[i], time |-> 0, label |-> "Manual"]] }

InitRemotes ==
    {[exists |-> FALSE, content |-> NoContent, sha |-> NoSha]}
    \cup { [exists |-> TRUE, content |-> c, sha |-> 1] :
             c \in {Garbage, JsonObject} \cup { JsonArray(q) : q \in InitCollections } }

InitStore ==
    /\ pc = [s \in Sessions |-> Fresh.pc]
    /\ op = [s \in Sessions |-> Fresh.op]
    /\ record = [s \in Sessions |-> Fresh.record]
    /\ record_id = [s \in Sessions |-> Fresh.record_id]
    /\ new_time = [s \in Sessions |-> Fresh.new_time]
    /\ max_retries = [s \in Sessions |-> Fresh.max_retries]
    /\ attempt = [s \in Sessions |-> Fresh.attempt]
    /\ data = [s \in Sessions |-> Fresh.data]
    /\ sha = [s \in Sessions |-> Fresh.sha]
    /\ new_sha = [s \in Sessions |-> Fresh.new_sha]
    /\ status = [s \in Sessions |-> Fresh.status]
    /\ ret = [s \in Sessions |-> Fresh.ret]
    /\ sleeps = [s \in Sessions |-> Fresh.sleeps]
    /\ dt_sel = [s \in Sessions |-> Fresh.dt_sel]
    /\ allow_future = [s \in Sessions |-> Fresh.allow_future]
    /\ app_data = [s \in Sessions |-> Fresh.app_data]
    /\ current_sha = [s \in Sessions |-> Fresh.current_sha]
    /\ edit_save_btn = [s \in Sessions |-> Fresh.edit_save_btn]
    /\ edit_choice_label = [s \in Sessions |-> Fresh.edit_choice_label]
    /\ edit_time_picker = [s \in Sessions |-> Fresh.edit_time_picker]
    /\ quiet = [s \in Sessions |-> FALSE]
    /\ raced = [s \in Sessions |-> FALSE]
    /\ overslept = [s \in Sessions |-> FALSE]
    /\ writes = [s \in Sessions |-> 0]
    /\ conflicts = [s \in Sessions |-> 0]
    /\ acked = <<>>
    /\ discarded = FALSE
    /\ now = 1
    /\ calls = 0

InitGenIdle ==
    /\ gen_existing = {}
    /\ gen_base = 0
    /\ gen_ids = <<>>

Init ==
    /\ remote \in InitRemotes
    /\ InitStore
    /\ InitGenIdle

(***************************************************************************)
(* Steps.                                                                  *)
(***************************************************************************)
\* any call may be answered with an error
FailChoices == BOOLEAN

InCall(s) == pc[s] \in {"load", "load_put", "commit", "sleep"}
InScript(s) == pc[s] \in {"run", "run_put", "idle"}

SetFrame(s, f) ==
    /\ pc' = [pc EXCEPT ![s] = f.pc]
    /\ op' = [op EXCEPT ![s] = f.op]
    /\ record' = [record EXCEPT ![s] = f.record]
    /\ record_id' = [record_id EXCEPT ![s] = f.record_id]
    /\ new_time' = [new_time EXCEPT ![s] = f.new_time]
    /\ max_retries' = [max_retries EXCEPT ![s] = f.max_retries]
    /\ attempt' = [attempt EXCEPT ![s] = f.attempt]
    /\ data' = [data EXCEPT ![s] = f.data]
    /\ sha' = [sha EXCEPT ![s] = f.sha]
    /\ new_sha' = [new_sha EXCEPT ![s] = f.new_sha]
    /\ status' = [status EXCEPT ![s] = f.status]
    /\ ret' = [ret EXCEPT ![s] = f.ret]
    /\ sleeps' = [sleeps EXCEPT ![s] = f.sleeps]
    /\ dt_sel' = [dt_sel EXCEPT ![s] = f.dt_sel]
    /\ allow_future' = [allow_future EXCEPT ![s] = f.allow_future]
    /\ app_data' = [app_data EXCEPT ![s] = f.app_data]
    /\ current_sha' = [current_sha EXCEPT ![s] = f.current_sha]
    /\ edit_save_btn' = [edit_save_btn EXCEPT ![s] = f.edit_save_btn]
    /\ edit_choice_label' = [edit_choice_label EXCEPT ![s] = f.edit_choice_label]
    /\ edit_time_picker' = [edit_time_picker EXCEPT ![s] = f.edit_time_picker]

\* the response r reached the code with locals f
Received(f, r) == [f EXCEPT !.status = r.status]

\* history of a step of s that leaves it with locals g: whether a
\* write of s was accepted (a commit or not), whether a commit of s was
\* rejected with 409, whether the step begins a call.  A script run forgets
\* the call before it.
History(s, g, accepted, isCommit, entering) ==
    /\ quiet' = [t \in Sessions |->
                   IF t = s THEN (IF entering THEN TRUE
                                  ELSE IF InScript(s) THEN FALSE ELSE quiet[s])
                   ELSE IF accepted /\ InCall(t) THEN FALSE ELSE quiet[t]]
    /\ raced' = [t \in Sessions |->
                   IF t = s THEN FALSE
                   ELSE IF accepted /\ pc[t] = "commit" THEN TRUE ELSE raced[t]]
    /\ overslept' = [t \in Sessions |->
                       IF t = s THEN (IF InScript(s) \/ entering THEN FALSE
                                      ELSE overslept[s])
                       ELSE IF accepted /\ pc[t] = "sleep" THEN TRUE
                       ELSE overslept[t]]
    /\ writes' = [writes EXCEPT ![s] =
                    IF InScript(s) \/ entering THEN 0
                    ELSE IF accepted /\ isCommit THEN @ + 1 ELSE @]
    /\ conflicts' = [conflicts EXCEPT ![s] =
                       IF InScript(s) \/ entering THEN 0
                       ELSE IF isCommit /\ g.status = 409 THEN @ + 1 ELSE @]
    /\ acked' = IF InCall(s) /\ g.op = "append" /\ g.pc = "run" /\ g.ret = "true"
                THEN Append(acked, g.record)
                ELSE acked
    /\ discarded' = IF accepted
                    THEN remote.exists /\ ~json_parses(remote.content)
                    ELSE discarded

\* the GET of load, sent by the code with locals f; the script may go on
\* into replace_record, whose call begins then.  g: the locals it ends with
Get(s, f) ==
    /\ \E fail \in FailChoices :
         LET r == remote_get(fail)
         IN \E g \in {load_got(Received(f, r), r)} :
            /\ SetFrame(s, g)
            /\ History(s, g, FALSE, FALSE, f.edit_save_btn /\ g.pc = "load")
    /\ UNCHANGED <<remote, gen_vars>>

\* load (called by the script, or by a store method in any of its turns):
\* the GET
LoadGet(s) ==
    /\ pc[s] \in {"run", "load"}
    /\ Get(s, Frame(s))
    /\ UNCHANGED <<now, calls>>

\* the page shown is run again without a store call (a widget changed, the
\* page reloaded): the script starts over with its load
Rerun(s) ==
    /\ pc[s] = "idle"
    /\ Get(s, [Frame(s) EXCEPT !.pc = "run"])
    /\ UNCHANGED <<now, calls>>

\* load: the creating PUT after a 404
LoadPut(s) ==
    /\ pc[s] \in {"run_put", "load_put"}
    /\ \E fail \in FailChoices :
         LET p == load_create_payload
             cr == remote_put(p.content, p.sha, fail)
         IN \E g \in {load_put_done(Received(Frame(s), cr), cr)} :
            /\ remote' = cr.remote
            /\ SetFrame(s, g)
            /\ History(s, g, cr.status \in {200, 201}, FALSE,
                       edit_save_btn[s] /\ g.pc = "load")
    /\ UNCHANGED <<now, calls, gen_vars>>

\* commit: the PUT, and the method's code up to its return, its next
\* network call or its time.sleep
CommitPut(s) ==
    /\ pc[s] = "commit"
    /\ \E fail \in FailChoices :
         LET p == commit_payload(data[s], sha[s])
             r == remote_put(p.content, p.sha, fail)
         IN \E g \in {after_commit(Received(Frame(s), r), r)} :
            /\ remote' = r.remote
            /\ SetFrame(s, g)
            /\ History(s, g, r.status \in {200, 201}, TRUE, FALSE)
    /\ UNCHANGED <<now, calls, gen_vars>>

\* append_with_retry: time.sleep(sleep_seconds) returns after a rejected
\* commit, and the method's code runs up to its next network call or its
\* return; no one reads the clock here
Slept(s) ==
    /\ pc[s] = "sleep"
    /\ \E g \in {append_slept(Frame(s))} :
         /\ SetFrame(s, g)
         /\ History(s, g, FALSE, FALSE, FALSE)
    /\ UNCHANGED <<remote, now, calls, gen_vars>>

\* a click on a button of the page shown
Click(s) ==
    /\ pc[s] = "idle"
    /\ calls < MaxCalls
    /\ calls' = calls + 1

\* now_local(TZ): a reading of the clock, which last read t
now_local(t) == t .. MaxTime

\* the locals of a callback of the page shown: the script's data and
\* current_sha, and nothing of a call made before
Page(s) ==
    [Fresh EXCEPT !.pc = "idle", !.status = status[s],
                  !.app_data = app_data[s], !.current_sha = current_sha[s]]

\* append_with_retry(path, record, max_retries): the first turn of
\* "for attempt in range(max_retries)", up to the GET of its load; or, the
\* range being empty, "return False"
append_called(f, rec, maxr) ==
    LET g == [f EXCEPT !.op = "append", !.record = rec, !.max_retries = maxr]
    IN IF maxr > 0 THEN [g EXCEPT !.pc = "load"] ELSE Returned(g, "false")

\* a store method is called and runs, with locals f, up to its first
\* network call: no step of another session has come between yet
Begin(s, f) ==
    /\ SetFrame(s, f)
    /\ History(s, f, FALSE, FALSE, TRUE)
    /\ UNCHANGED <<remote, gen_vars>>

\* the id a save gives its record: from the snapshot and the clock reading
\* of generate_decimal_id
save_id(s, ts) == generate_decimal_id(existing_ids_int(records_of(app_data[s])), ts)

\* _save_now: agora = now_local(TZ); the id, for which generate_decimal_id
\* reads the clock again; then append_with_retry
SaveNow(s) ==
    /\ Click(s)
    /\ \E agora \in now_local(now) : \E base \in now_local(agora) :
         /\ now' = base
         /\ Begin(s, append_called(Page(s),
                                   RegistroPonto_novo(save_id(s, base), agora, "Automatico"),
                                   DEFAULT_MAX_RETRIES))

\* how far ahead of the clock the form's time can be
FormAhead == {0, 1}

\* mutant: ">=" in place of ">", the present is refused too
save_manual_refuses_now(allow, dt, agora) == (~allow) /\ dt >= agora

\* _save_manual: "if (not allow_future) and (dt_sel > agora)"
save_manual_refuses(allow, dt, agora) == (~allow) /\ dt > agora

\* _save_manual(rotulo, observacao, dt_sel, allow_future): agora is read for
\* the refusal; the id comes from a later reading
SaveManual(s) ==
    /\ Click(s)
    /\ \E agora \in now_local(now), ahead \in FormAhead, allow \in BOOLEAN :
         LET dt == agora + ahead
             f == [Page(s) EXCEPT !.dt_sel = dt, !.allow_future = allow]
         IN IF save_manual_refuses(allow, dt, agora)
            THEN \* st.error(...); return: no store call, the script runs again
                 /\ now' = agora
                 /\ SetFrame(s, [f EXCEPT !.pc = "run", !.op = "refused"])
                 /\ UNCHANGED <<remote, hist_vars, gen_vars>>
            ELSE \E base \in now_local(agora) :
                 /\ now' = base
                 /\ Begin(s, append_called(f,
                                           RegistroPonto_novo(save_id(s, base), dt, "Manual"),
                                           DEFAULT_MAX_RETRIES))

\* a call of a store method by a caller that does not go through the form:
\* nothing has been loaded on its behalf
Call(s) ==
    /\ pc[s] = "run"
    /\ calls < MaxCalls
    /\ calls' = calls + 1
    /\ now' \in now_local(now)

\* a caller of services.github_store with a models.RegistroPonto record and
\* its own max_retries; uuid4 gives an identifier no other call gives
ApiRetries == {0, 1, 2}
uuid4 == "u" \o IntToStr(calls + 1)

AppendCall(s) ==
    /\ Call(s)
    /\ \E maxr \in ApiRetries :
         Begin(s, append_called(Fresh, models_novo(uuid4, now', "Manual"), maxr))

\* identifiers a caller may name: ones some record has, and ones none has
EditIds == {JStr("1"), JStr("u1")}

\* a caller of GithubJSONStore.replace_record
ReplaceCall(s) ==
    /\ Call(s)
    /\ \E rid \in EditIds :
         Begin(s, replace_called(Fresh, rid, now'))

\* a click on "Salvar edição", an option of the page shown being chosen and
\* the time input holding a time read from the clock: the script starts
\* again from the top, the button pressed, up to the GET of its load
EditSave(s) ==
    /\ Click(s)
    /\ now' \in now_local(now)
    /\ \E i \in DOMAIN edit_entries(records_of(app_data[s])) :
         SetFrame(s, [Fresh EXCEPT
                        !.status = status[s],
                        !.edit_save_btn = TRUE,
                        !.edit_choice_label =
                            edit_entries(records_of(app_data[s]))[i].display,
                        !.edit_time_picker = now'])
    /\ UNCHANGED <<remote, hist_vars, gen_vars>>

Next ==
    \/ \E s \in Sessions : LoadGet(s)
    \/ \E s \in Sessions : LoadPut(s)
    \/ \E s \in Sessions : CommitPut(s)
    \/ \E s \in Sessions : Slept(s)
    \/ \E s \in Sessions : Rerun(s)
    \/ \E s \in Sessions : SaveNow(s)
    \/ \E s \in Sessions : SaveManual(s)
    \/ \E s \in Sessions : AppendCall(s)
    \/ \E s \in Sessions : EditSave(s)
    \/ \E s \in Sessions : ReplaceCall(s)

Spec == Init /\ [][Next]_vars

\* the script of s runs and waits for the answer to the GET of its load:
\* it was started by a click on "Salvar edição", by a callback that returned
\* (after a refusal, or with what append_with_retry returned), or by
\* st.rerun() after replace_record returned True.  After st.stop(), after an
\* exception, after a method returned to a caller that is no script, and
\* before the first run, no request is outstanding
ScriptWaits(s) ==
    /\ pc[s] = "run"
    /\ \/ edit_save_btn[s]
       \/ op[s] = "refused"
       \/ ret[s] \in {"true", "false"} /\ app_data[s] # NoData

\* every network call returns: a session waiting for an answer gets one
Returns(s) ==
    /\ WF_vars((pc[s] = "load" \/ ScriptWaits(s)) /\ LoadGet(s))
    /\ WF_vars(LoadPut(s))
    /\ WF_vars(CommitPut(s))

\* time.sleep(sleep_seconds) returns
Wakes(s) == WF_vars(Slept(s))

\* the steps of Next, the clicks and calls being at most MaxLiveCalls
NextLive ==
    \/ \E s \in Sessions : LoadGet(s)
    \/ \E s \in Sessions : LoadPut(s)
    \/ \E s \in Sessions : CommitPut(s)
    \/ \E s \in Sessions : Slept(s)
    \/ \E s \in Sessions : Rerun(s)
    \/ \E s \in Sessions : SaveNow(s) /\ calls < MaxLiveCalls
    \/ \E s \in Sessions : SaveManual(s) /\ calls < MaxLiveCalls
    \/ \E s \in Sessions : AppendCall(s) /\ calls < MaxLiveCalls
    \/ \E s \in Sessions : EditSave(s) /\ calls < MaxLiveCalls
    \/ \E s \in Sessions : ReplaceCall(s) /\ calls < MaxLiveCalls

SpecLive ==
    /\ Init /\ [][NextLive]_vars
    /\ \A s \in Sessions : Returns(s) /\ Wakes(s)

(***************************************************************************)
(* Identifier generation on its own: a caller that holds a set of          *)
(* identifiers, generates one, adds it to the set, and goes on, while the  *)
(* clock stands still or advances.                                         *)
(***************************************************************************)
InitGen ==
    /\ remote = [exists |-> FALSE, content |-> NoContent, sha |-> NoSha]
    /\ InitStore
    /\ gen_existing \in SUBSET (1 .. MaxGen)
    /\ gen_base \in 1 .. MaxGen
    /\ gen_ids = <<>>

\* new_id = generate_decimal_id(existing); existing.add(new_id)
Generate ==
    /\ Len(gen_ids) < MaxGen
    /\ gen_ids' = Append(gen_ids,
                         [base |-> gen_base,
                          id |-> generate_decimal_id(
                                   gen_existing \cup { gen_ids[j].id : j \in DOMAIN gen_ids },
                                   gen_base)])
    /\ UNCHANGED <<gen_existing, gen_base>>
    /\ UNCHANGED <<remote, now, calls, store_vars, hist_vars>>

GenTick ==
    /\ gen_base < MaxGen
    /\ gen_base' = gen_base + 1
    /\ UNCHANGED <<gen_existing, gen_ids>>
    /\ UNCHANGED <<remote, now, calls, store_vars, hist_vars>>

NextGen == Generate \/ GenTick

SpecGen == InitGen /\ [][NextGen]_vars

(***************************************************************************)
(* What the claims speak of.                                               *)
(***************************************************************************)
\* the collection at the path, as an array of records
WellFormed(r) == r.exists /\ r.content.kind = "array"
Recs(r) == IF WellFormed(r) THEN r.content.recs ELSE <<>>

\* what a load answered with 200 would return now
LoadedNow(r) == load_200([status |-> 200, content |-> r.content, sha |-> r.sha])

\* session s takes its commit step (the step always leaves "commit")
CommitStep(s) == pc[s] = "commit" /\ pc'[s] # "commit"

\* time.sleep returns to session s, which waited in it after a rejected commit
SleptStep(s) == pc[s] = "sleep" /\ pc'[s] # "sleep"

\* the answer was a fault of the remote, not its answer to the request
Faulted(st) == st = 500

\* a record but for its time, the one field an edit changes
Key(r) == [id |-> r.id, label |-> r.label]
Count(q, k) == Cardinality({ i \in DOMAIN q : Key(q[i]) = k })

(***************************************************************************)
(* C1.  With no concurrent writer and a well-formed collection C at the    *)
(* path, append_with_retry(path, R) returns True and leaves the collection *)
(* equal to C followed by R: the commit of a call that no other session    *)
(* disturbed, unless the remote fails, is accepted, the call returns True, *)
(* the bytes at the path are the array C + [R], and a load of them returns *)
(* C + [R].                                                                *)
(***************************************************************************)
C1_AppendAloneStep ==
    \A s \in Sessions :
        (/\ CommitStep(s)
         /\ op[s] = "append"
         /\ quiet[s]
         /\ WellFormed(remote)
         /\ ~Faulted(status'[s]))
        => /\ ret'[s] = "true"
           /\ pc'[s] = "run"
           /\ WellFormed(remote')
           /\ Recs(remote') = Append(Recs(remote), record[s])
           /\ LoadedNow(remote').data = PyList(Append(Recs(remote), record[s]))

C1_AppendAlone == [][C1_AppendAloneStep]_vars

\* an undisturbed append returned True on a collection that was not empty
C1_Witness ==
    \E s \in Sessions :
        /\ op[s] = "append" /\ ret[s] = "true" /\ quiet[s] /\ pc[s] = "run"
        /\ Len(Recs(remote)) >= 2
        /\ Recs(remote)[Len(Recs(remote))] = record[s]

(***************************************************************************)
(* C2.  Two sessions hold the same token V.  The first commit with V is    *)
(* accepted and returns a new token V2 # V; from then on the other         *)
(* session's token is stale, its commit gets 409, returns None without     *)
(* raising and leaves the remote as it is, and append_with_retry waits in  *)
(* time.sleep, its turn not over; when the sleep ends it turns to a new    *)
(* attempt, whose load returns the current token, so that its commit is    *)
(* accepted in turn unless yet another write came in after that load.      *)
(***************************************************************************)
C2_CasStep ==
    \A s \in Sessions :
        /\ (CommitStep(s) /\ ~Faulted(status'[s]) /\ sha[s] = remote.sha)
           => /\ status'[s] = 200
              /\ remote'.sha # remote.sha
              /\ new_sha'[s] = remote'.sha
              /\ \A t \in Sessions \ {s} :
                    (pc[t] = "commit" /\ sha[t] = sha[s])
                    => (pc'[t] = "commit" /\ sha'[t] # remote'.sha)
        /\ (CommitStep(s) /\ ~Faulted(status'[s]) /\ sha[s] # remote.sha)
           => /\ status'[s] = 409
              /\ new_sha'[s] = NoSha
              /\ ret'[s] # "raised"
              /\ remote' = remote
              /\ op[s] = "append"
                 => /\ pc'[s] = "sleep" /\ ret'[s] = "none"
                    /\ attempt'[s] = attempt[s]
                    /\ data'[s] = data[s] /\ sha'[s] = sha[s]
        /\ pc[s] = "sleep"
           => /\ op[s] = "append" /\ status[s] = 409 /\ new_sha[s] = NoSha
              /\ ret[s] = "none"
        /\ (SleptStep(s) /\ attempt[s] + 1 < max_retries[s])
           => (pc'[s] = "load" /\ attempt'[s] = attempt[s] + 1 /\ remote' = remote)
        /\ (pc[s] = "load" /\ pc'[s] = "commit")
           => sha'[s] = remote.sha

C2_Cas == [][C2_CasStep]_vars

\* a session lost the race once, slept, retried, and its append returned
\* True
C2_Witness ==
    \E s \in Sessions :
        /\ op[s] = "append" /\ ret[s] = "true" /\ pc[s] = "run"
        /\ conflicts[s] = 1 /\ sleeps[s] = 1 /\ attempt[s] = 1 /\ writes[s] = 1

(***************************************************************************)
(* C3.  No lost update: every record whose append_with_retry returned True *)
(* stays in the collection (its time may have been edited by               *)
(* replace_record), as many times as it was acknowledged.                  *)
(***************************************************************************)
C3_NoLostUpdate ==
    \A i \in DOMAIN acked :
        Count(Recs(remote), Key(acked[i])) >= Count(acked, Key(acked[i]))

\* three appends were acknowledged, one of them after losing a race: while
\* it waited in time.sleep the other session appended once more
C3_Witness ==
    /\ Len(acked) = 3
    /\ \E s \in Sessions :
          /\ op[s] = "append" /\ ret[s] = "true" /\ pc[s] = "run"
          /\ conflicts[s] = 1 /\ sleeps[s] = 1 /\ overslept[s]
          /\ acked[3] = record[s]

(***************************************************************************)
(* C4.  When append_with_retry returns False, each of its max_retries      *)
(* commits was rejected with 409 (with max_retries = 0 it sent none), none *)
(* was accepted, it slept once after each, and a record only this call     *)
(* could have written (one with a uuid identifier) is not in the           *)
(* collection.                                                             *)
(***************************************************************************)
C4_FalseMeansUnchanged ==
    \A s \in Sessions :
        (op[s] = "append" /\ ret[s] = "false")
        => /\ writes[s] = 0
           /\ conflicts[s] = max_retries[s]
           /\ sleeps[s] = max_retries[s]
           /\ max_retries[s] > 0 => attempt[s] = max_retries[s] - 1
           /\ (record[s].id.ty = "str"
               => \A i \in DOMAIN Recs(remote) : Recs(remote)[i].id # record[s].id)

\* an append_with_retry with two attempts allowed returned False: both its
\* commits were rejected, it slept twice, its record is not in the
\* collection and the two records that won are
C4_Witness ==
    \E s \in Sessions :
        /\ op[s] = "append" /\ ret[s] = "false" /\ pc[s] = "run"
        /\ max_retries[s] = 2 /\ conflicts[s] = 2 /\ sleeps[s] = 2
        /\ record[s].id.ty = "str"
        /\ Count(Recs(remote), Key(record[s])) = 0
        /\ Len(acked) = 2

(***************************************************************************)
(* C5.  Identifier uniqueness: after any sequence of saves by one or       *)
(* several sessions, no two records of the collection have the same        *)
(* identifier.  (Violated: two sessions whose snapshots lack each other's  *)
(* record generate the same identifier from the same clock reading.)       *)
(***************************************************************************)
C5_UniqueIds ==
    \A i, j \in DOMAIN Recs(remote) :
        i # j => Recs(remote)[i].id # Recs(remote)[j].id

(***************************************************************************)
(* C6.  generate_decimal_id(existing) returns the smallest integer >= the  *)
(* clock reading that is not in existing; so it is never in existing, and  *)
(* successive generations, each result added to the set, are pairwise      *)
(* different even when the clock reading is the same.                      *)
(***************************************************************************)
C6_GenerateFresh ==
    \A k \in DOMAIN gen_ids :
        LET ex == gen_existing \cup { gen_ids[j].id : j \in 1 .. (k - 1) }
            g == gen_ids[k]
        IN /\ g.id \notin ex
           /\ g.id >= g.base
           /\ \A m \in g.base .. (g.id - 1) : m \in ex
           /\ \A j \in 1 .. (k - 1) : gen_ids[j].id # g.id

\* MaxGen identifiers generated at one clock reading that was already taken
C6_Witness ==
    /\ Len(gen_ids) = MaxGen
    /\ \A k \in DOMAIN gen_ids : gen_ids[k].base = gen_ids[1].base
    /\ gen_ids[1].base \in gen_existing
    /\ gen_ids[1].base + 1 \in gen_existing

(***************************************************************************)
(* C7.  load on a path that does not exist: the GET answers 404 and load   *)
(* goes on to a PUT of "[]" without a token; when the path still does not  *)
(* exist the PUT creates it (201), the object holds [] and load returns    *)
(* ([], token) with the token of the new object.                           *)
(***************************************************************************)
\* session s takes a step that sends load's GET / load's creating PUT
GetStep(s) ==
    /\ LoadGet(s) \/ Rerun(s)
    /\ <<pc[s], status[s], op[s], ret[s]>>' # <<pc[s], status[s], op[s], ret[s]>>
\* the load is the script's, not a store method's
ByScript(s) == op'[s] = "none"
PutStep(s) == pc[s] \in {"run_put", "load_put"} /\ pc'[s] # pc[s]

C7_LoadCreatesStep ==
    \A s \in Sessions :
        /\ (GetStep(s) /\ ~remote.exists /\ ~Faulted(status'[s]))
           => /\ status'[s] = 404
              /\ pc'[s] = (IF ByScript(s) THEN "run_put" ELSE "load_put")
              /\ remote' = remote
        /\ (PutStep(s) /\ ~remote.exists /\ ~Faulted(status'[s]))
           => /\ status'[s] = 201
              /\ load_create_payload.sha = NoSha
              /\ remote'.exists
              /\ remote'.content = JsonArray(<<>>)
              /\ truthy(remote'.sha)
              /\ LoadedNow(remote') = [data |-> PyList(<<>>), sha |-> remote'.sha]
              /\ pc[s] = "run_put"
                 => /\ pc'[s] = "idle"
                    /\ app_data'[s] = PyList(<<>>)
                    /\ current_sha'[s] = remote'.sha

C7_LoadCreates == [][C7_LoadCreatesStep]_vars

\* the script's load has just created the object and shows the form
C7_Witness ==
    \E s \in Sessions :
        /\ pc[s] = "idle" /\ status[s] = 201
        /\ app_data[s] = PyList(<<>>)
        /\ current_sha[s] = remote.sha
        /\ remote.content = JsonArray(<<>>)

(***************************************************************************)
(* C8.  load on an existing object whose bytes are not JSON returns        *)
(* ([], token) with the object's current token, raises nothing and writes  *)
(* nothing.                                                                *)
(***************************************************************************)
C8_LoadMalformedStep ==
    \A s \in Sessions :
        (GetStep(s) /\ remote.exists /\ remote.content = Garbage /\ ~Faulted(status'[s]))
        => /\ status'[s] = 200
           /\ remote' = remote
           /\ ret'[s] # "raised"
           /\ ByScript(s)
              => /\ pc'[s] = "idle"
                 /\ app_data'[s] = PyList(<<>>)
                 /\ current_sha'[s] = remote.sha
           /\ op'[s] = "append"
              => /\ pc'[s] = "commit"
                 /\ data'[s] = PyList(<<record'[s]>>)
                 /\ sha'[s] = remote.sha
           /\ op'[s] = "replace"
              => (pc'[s] = "run" /\ ret'[s] = "false")

C8_LoadMalformed == [][C8_LoadMalformedStep]_vars

\* the script's load has returned ([], token) on bytes that are not JSON
C8_Witness ==
    \E s \in Sessions :
        /\ pc[s] = "idle" /\ status[s] = 200
        /\ remote.content = Garbage
        /\ app_data[s] = PyList(<<>>)
        /\ current_sha[s] = remote.sha

(***************************************************************************)
(* C9.  commit returns the new token when the write is accepted, None      *)
(* exactly when it is rejected with 409, and raises on every other         *)
(* response; load raises on every response to its GET other than 200 and   *)
(* 404 and on every refusal of its creating PUT (in the script: st.error   *)
(* and st.stop); and no response other than a success changes the remote.  *)
(***************************************************************************)
C9_StatusStep ==
    \A s \in Sessions :
        /\ CommitStep(s)
           => /\ status'[s] \in {200, 201}
                 => (new_sha'[s] = remote'.sha /\ truthy(new_sha'[s]) /\ ret'[s] = "true")
              /\ status'[s] = 409
                 => (new_sha'[s] = NoSha /\ ret'[s] # "raised" /\ remote' = remote)
              /\ status'[s] \notin {200, 201, 409}
                 => (ret'[s] = "raised" /\ pc'[s] = "run" /\ remote' = remote)
              /\ (ret'[s] # "raised" /\ ~truthy(new_sha'[s])) <=> status'[s] = 409
        /\ (GetStep(s) /\ status'[s] \notin {200, 404})
           => /\ remote' = remote
              /\ pc'[s] = "run"
              /\ ~ByScript(s) => ret'[s] = "raised"
              /\ ByScript(s) => app_data'[s] = NoData
        /\ (PutStep(s) /\ status'[s] \notin {200, 201})
           => /\ remote' = remote
              /\ pc'[s] = "run"
              /\ pc[s] = "load_put" => ret'[s] = "raised"
              /\ pc[s] = "run_put" => app_data'[s] = NoData

C9_Status == [][C9_StatusStep]_vars

\* a commit was answered with an error and raised, while the other session
\* had a commit rejected with 409
C9_Witness ==
    \E s, t \in Sessions :
        /\ op[s] \in {"append", "replace"} /\ ret[s] = "raised"
        /\ status[s] = 500 /\ writes[s] = 0
        /\ conflicts[t] >= 1

(***************************************************************************)
(* C10.  replace_record(path, record_id, new_time) on a collection with a  *)
(* record whose str(id) is str(record_id), undisturbed by other sessions,  *)
(* returns True and changes the time of the first such record and nothing  *)
(* else: the other fields of that record, all other records (later ones    *)
(* with the same str(id) too), their number and their order stay.          *)
(***************************************************************************)
C10_ReplaceStep ==
    \A s \in Sessions :
        (/\ CommitStep(s)
         /\ op[s] = "replace"
         /\ quiet[s]
         /\ ~Faulted(status'[s]))
        => /\ ret'[s] = "true"
           /\ WellFormed(remote) /\ WellFormed(remote')
           /\ \E k \in DOMAIN Recs(remote) :
                 /\ py_str(Recs(remote)[k].id) = py_str(record_id[s])
                 /\ \A j \in 1 .. (k - 1) :
                       py_str(Recs(remote)[j].id) # py_str(record_id[s])
                 /\ Recs(remote') = [Recs(remote) EXCEPT ![k].time = new_time[s]]

C10_Replace == [][C10_ReplaceStep]_vars

\* an undisturbed edit returned True where two records have the same
\* str(id): the first has the new time, the second kept its own
C10_Witness ==
    \E s \in Sessions :
        /\ op[s] = "replace" /\ ret[s] = "true" /\ quiet[s] /\ pc[s] = "run"
        /\ Len(Recs(remote)) >= 2
        /\ py_str(Recs(remote)[1].id) = py_str(record_id[s])
        /\ py_str(Recs(remote)[2].id) = py_str(record_id[s])
        /\ Recs(remote)[1].time = new_time[s]
        /\ Recs(remote)[2].time # new_time[s]

(***************************************************************************)
(* C11.  replace_record sends at most one commit per call and never        *)
(* retries: when another session's write was accepted between its load and *)
(* its commit, the commit is rejected (409), the call returns False at     *)
(* once, and the remote, the other session's write included, stays as it   *)
(* was; the edit is not applied.                                           *)
(***************************************************************************)
C11_ReplaceNoRetryStep ==
    \A s \in Sessions :
        (CommitStep(s) /\ op[s] = "replace")
        => /\ writes[s] + conflicts[s] = 0
           /\ pc'[s] = (IF app_data[s] # NoData /\ ret'[s] = "false"
                        THEN "idle" ELSE "run")
           /\ (raced[s] /\ ~Faulted(status'[s]))
              => /\ status'[s] = 409
                 /\ ret'[s] = "false"
                 /\ remote' = remote

C11_ReplaceNoRetry == [][C11_ReplaceNoRetryStep]_vars

\* an edit lost the race against an append: it returned False after its one
\* commit, the matching record kept its time, the appended record is there
C11_Witness ==
    \E s \in Sessions :
        /\ op[s] = "replace" /\ ret[s] = "false" /\ pc[s] = "run"
        /\ status[s] = 409 /\ conflicts[s] = 1 /\ writes[s] = 0
        /\ \E i \in DOMAIN Recs(remote) :
              py_str(Recs(remote)[i].id) = py_str(record_id[s])
        /\ \A i \in DOMAIN Recs(remote) :
              py_str(Recs(remote)[i].id) = py_str(record_id[s])
              => Recs(remote)[i].time # new_time[s]
        /\ \E i \in DOMAIN acked : Count(Recs(remote), Key(acked[i])) = 1

(***************************************************************************)
(* C12.  append_with_retry terminates when every network call returns and  *)
(* every time.sleep ends.  Each of its commits belongs to an attempt       *)
(* numbered below max_retries, follows only rejected commits of the call,  *)
(* and either is accepted, upon which the call returns True with no        *)
(* further load, commit or sleep; or is rejected with 409, upon which the  *)
(* call enters time.sleep and does nothing else until the sleep ends; or   *)
(* raises.  When the sleep ends the call loads again or, max_retries       *)
(* commits having been rejected, returns False.  It sleeps once per        *)
(* rejected commit and never otherwise.  A call that waits, for an answer  *)
(* or in time.sleep, is in an attempt numbered below max_retries.          *)
(***************************************************************************)
C12_AttemptStep ==
    \A s \in Sessions :
      /\ (InCall(s) /\ op[s] = "append") => attempt[s] < max_retries[s]
      /\
        (CommitStep(s) /\ op[s] = "append")
        => /\ attempt[s] + 1 <= max_retries[s]
           /\ writes[s] = 0
           /\ conflicts[s] = attempt[s]
           /\ sleeps[s] = conflicts[s]
           /\ status'[s] \in {200, 201}
              => (ret'[s] = "true" /\ pc'[s] = "run" /\ sleeps'[s] = sleeps[s])
           /\ status'[s] = 409
              => /\ sleeps'[s] = sleeps[s] + 1
                 /\ pc'[s] = "sleep" /\ ret'[s] = "none"
                 /\ attempt'[s] = attempt[s]
           /\ status'[s] \notin {200, 201, 409}
              => (ret'[s] = "raised" /\ pc'[s] = "run" /\ sleeps'[s] = sleeps[s])
      /\ pc[s] = "sleep"
         => /\ op[s] = "append" /\ status[s] = 409 /\ writes[s] = 0
            /\ conflicts[s] = attempt[s] + 1
            /\ sleeps[s] = conflicts[s]
      /\ SleptStep(s)
         => /\ sleeps'[s] = sleeps[s] /\ conflicts'[s] = conflicts[s]
            /\ remote' = remote
            /\ IF attempt[s] + 1 < max_retries[s]
               THEN pc'[s] = "load" /\ attempt'[s] = attempt[s] + 1
                    /\ ret'[s] = "none"
               ELSE pc'[s] = "run" /\ ret'[s] = "false"
            /\ ret'[s] = "false"
               => (conflicts'[s] = max_retries[s] /\ writes'[s] = 0)
      /\ (InCall(s) /\ op[s] = "append" /\ sleeps'[s] # sleeps[s])
         => (CommitStep(s) /\ status'[s] = 409)
      /\ (InCall(s) /\ op[s] = "append" /\ ret'[s] = "false")
         => SleptStep(s)

C12_Terminates ==
    /\ [][C12_AttemptStep]_vars
    /\ \A s \in Sessions : (InCall(s) /\ op[s] = "append") ~> (pc[s] = "run")

\* a call with two attempts allowed slept once, after its first commit was
\* rejected, and returned True from its second and last attempt; the other
\* session's call, with one attempt allowed, had returned True at once
C12_Witness ==
    \E s, t \in Sessions :
        /\ s # t
        /\ op[s] = "append" /\ pc[s] = "run" /\ ret[s] = "true"
        /\ max_retries[s] = 2 /\ attempt[s] = 1
        /\ conflicts[s] = 1 /\ sleeps[s] = 1 /\ writes[s] = 1
        /\ op[t] = "append" /\ ret[t] = "true" /\ max_retries[t] = 1
        /\ sleeps[t] = 0 /\ attempt[t] = 0

(***************************************************************************)
(* C13.  Every attempt of append_with_retry is a fresh read-modify-write:  *)
(* the list an attempt is about to commit is what its own load returned    *)
(* (the remote's array at that moment, [] when the bytes do not parse or   *)
(* the object was just created) with the record appended, and the token it *)
(* holds is the remote's token at that load; the commit puts exactly that  *)
(* list, and is accepted only if that token is still the remote's.         *)
(***************************************************************************)
C13_FreshAttemptStep ==
    \A s \in Sessions :
        /\ (pc[s] # "commit" /\ pc'[s] = "commit" /\ op'[s] = "append")
           => LET ld == LoadedNow(remote')
              IN /\ ld.data.kind = "list"
                 /\ data'[s] = PyList(Append(ld.data.recs, record'[s]))
                 /\ sha'[s] = ld.sha
                 /\ truthy(sha'[s])
        /\ (pc[s] = "commit" /\ pc'[s] = "commit")
           => (data'[s] = data[s] /\ sha'[s] = sha[s])
        /\ (CommitStep(s) /\ op[s] = "append" /\ status'[s] \in {200, 201})
           => /\ sha[s] = remote.sha
              /\ remote'.content = json_dumps(data[s])
        /\ (CommitStep(s) /\ op[s] = "append" /\ status'[s] = 409)
           => sha[s] # remote.sha

C13_FreshAttempt == [][C13_FreshAttemptStep]_vars

\* a second attempt about to commit, after a sleep during which the other
\* session wrote: its list is the remote's array of now, the other
\* session's records included, plus its record; the script's snapshot and
\* token are older
C13_Witness ==
    \E s \in Sessions :
        /\ pc[s] = "commit" /\ op[s] = "append" /\ attempt[s] = 1
        /\ sleeps[s] = 1 /\ overslept[s]
        /\ data[s] = PyList(Append(Recs(remote), record[s]))
        /\ sha[s] = remote.sha
        /\ Len(Recs(remote)) > Len(records_of(app_data[s]))
        /\ current_sha[s] # sha[s]

(***************************************************************************)
(* C14.  One append_with_retry call adds its record all or nothing and at  *)
(* most once.  At most one commit of a call is accepted; an accepted       *)
(* commit adds exactly one occurrence of the record to the collection and  *)
(* a rejected or failed one adds none; so for a record whose identifier is *)
(* the call's own (a uuid), in every state of the call and after it, the   *)
(* collection holds the record as many times as commits of the call were   *)
(* accepted: zero times or once.                                           *)
(***************************************************************************)
\* the record of the call has an identifier no other call can give
OwnRecord(s) == op[s] = "append" /\ record[s].id.ty = "str"

C14_Once ==
    \A s \in Sessions :
        /\ op[s] = "append" => writes[s] \in {0, 1}
        /\ OwnRecord(s) => Count(Recs(remote), Key(record[s])) = writes[s]

C14_OnceStep ==
    \A s \in Sessions :
        (CommitStep(s) /\ op[s] = "append")
        => /\ writes[s] = 0
           /\ status'[s] \in {200, 201}
              => /\ writes'[s] = 1
                 /\ Count(Recs(remote'), Key(record[s]))
                      = Count(Recs(remote), Key(record[s])) + 1
                 /\ Len(Recs(remote')) = Len(Recs(remote)) + 1
           /\ status'[s] \notin {200, 201}
              => (writes'[s] = 0 /\ remote' = remote)

C14_AtMostOnce == []C14_Once /\ [][C14_OnceStep]_vars

\* between two attempts of a call: its first commit was rejected and it
\* waits in time.sleep, where another write has been accepted meanwhile;
\* its record is not in the collection, the other session's record is
C14_Witness ==
    \E s \in Sessions :
        /\ OwnRecord(s) /\ pc[s] = "sleep" /\ attempt[s] = 0
        /\ conflicts[s] = 1 /\ sleeps[s] = 1 /\ writes[s] = 0
        /\ overslept[s]
        /\ Count(Recs(remote), Key(record[s])) = 0
        /\ \E i \in DOMAIN acked : Count(Recs(remote), Key(acked[i])) = 1

(***************************************************************************)
(* C15.  Records are never deleted or reordered.  Whatever the sessions    *)
(* do, a well-formed collection stays well-formed and every step leaves    *)
(* its sequence of identifiers as it was or with one identifier more at    *)
(* the end: an accepted commit of replace_record leaves it as it was, an   *)
(* accepted commit of append_with_retry adds the identifier of its record  *)
(* at the end, and nothing else writes.  So the length never decreases.    *)
(***************************************************************************)
Ids(r) == [i \in DOMAIN Recs(r) |-> Recs(r)[i].id]

C15_NoDeleteStep ==
    /\ WellFormed(remote) => WellFormed(remote')
    /\ Len(Recs(remote')) >= Len(Recs(remote))
    /\ \/ Ids(remote') = Ids(remote)
       \/ \E s \in Sessions :
             /\ CommitStep(s) /\ op[s] = "append" /\ status'[s] \in {200, 201}
             /\ Ids(remote') = Append(Ids(remote), record[s].id)
    /\ \A s \in Sessions :
          (CommitStep(s) /\ op[s] = "replace" /\ status'[s] \in {200, 201})
          => (Ids(remote') = Ids(remote) /\ remote' # remote)

C15_NoDelete == [][C15_NoDeleteStep]_vars

\* an edit and an append were both accepted on a collection of two records:
\* three records, the first two with the identifiers they had
C15_Witness ==
    \E s, t \in Sessions :
        /\ op[s] = "replace" /\ ret[s] = "true"
        /\ op[t] = "append" /\ ret[t] = "true"
        /\ Len(Recs(remote)) = 3
        /\ Ids(remote) = <<JInt(1), JStr("1"), record[t].id>>

(***************************************************************************)
(* C16.  An error raised by load or by commit inside append_with_retry     *)
(* (any answer other than 200/404 to the GET, other than 200/201 to the    *)
(* creating PUT, other than 200/201/409 to the commit) ends the call at    *)
(* once: the error reaches the caller, no further attempt is made though   *)
(* attempts remain, and the remote is as it was before the failed step.    *)
(***************************************************************************)
\* session s, in an append_with_retry call, gets an answer that is an error
AppendError(s) ==
    /\ op'[s] = "append"
    /\ \/ GetStep(s) /\ status'[s] \notin {200, 404}
       \/ pc[s] = "load_put" /\ PutStep(s) /\ status'[s] \notin {200, 201}
       \/ CommitStep(s) /\ status'[s] \notin {200, 201, 409}

C16_ErrorAbortsStep ==
    \A s \in Sessions :
        AppendError(s)
        => /\ ret'[s] = "raised"
           /\ pc'[s] = "run"
           /\ remote' = remote
           /\ writes'[s] = 0
           /\ InCall(s) => (attempt'[s] = attempt[s] /\ sleeps'[s] = sleeps[s])
           /\ acked' = acked

C16_ErrorAborts == [][C16_ErrorAbortsStep]_vars

\* a call with three attempts allowed raised in its second attempt
C16_Witness ==
    \E s \in Sessions :
        /\ op[s] = "append" /\ ret[s] = "raised" /\ pc[s] = "run"
        /\ status[s] = 500
        /\ max_retries[s] = DEFAULT_MAX_RETRIES /\ attempt[s] = 1
        /\ conflicts[s] = 1 /\ writes[s] = 0
        /\ Count(Recs(remote), Key(record[s])) = 0

(***************************************************************************)
(* C17.  _save_manual with the allow-future flag off and a selected time   *)
(* later than the clock makes no store call (no load, no commit): nothing  *)
(* is sent, no record is made, the remote stays as it was.  With the flag  *)
(* on, or a selected time not later than the clock, it calls               *)
(* append_with_retry with a "Manual" record of the selected time, which    *)
(* goes on to the GET of its first load.                                   *)
(***************************************************************************)
\* session s, its form shown, runs _save_manual
ManualStep(s) == pc[s] = "idle" /\ dt_sel'[s] # Fresh.dt_sel

C17_FutureStep ==
    \A s \in Sessions :
        ManualStep(s)
        => IF ~allow_future'[s] /\ dt_sel'[s] > now'
           THEN /\ op'[s] = "refused" /\ pc'[s] = "run"
                /\ remote' = remote
                /\ status'[s] = status[s]
                /\ record'[s] = NoRecord
                /\ ret'[s] = "none"
                /\ <<writes, conflicts, acked>>' = <<writes, conflicts, acked>>
           ELSE /\ op'[s] = "append"
                /\ record'[s].time = dt_sel'[s]
                /\ record'[s].label = "Manual"
                /\ max_retries'[s] = DEFAULT_MAX_RETRIES
                /\ pc'[s] = "load" /\ attempt'[s] = 0 /\ ret'[s] = "none"

C17_Future == [][C17_FutureStep]_vars

\* one session was refused a future time with the flag off; the other, with
\* the flag on, saved a record with a future time
C17_Witness ==
    \E s, t \in Sessions :
        /\ op[s] = "refused" /\ ~allow_future[s] /\ dt_sel[s] > now
        /\ op[t] = "append" /\ allow_future[t] /\ dt_sel[t] > now
        /\ ret[t] = "true"
        /\ \E i \in DOMAIN Recs(remote) :
              Recs(remote)[i] = record[t] /\ Recs(remote)[i].time > now
        /\ Len(acked) = 1

(***************************************************************************)
(* C18.  replace_record on a collection in which no record has            *)
(* str(id) = str(record_id) returns False and sends no commit.  As first   *)
(* stated it also leaves the remote object exactly as it was (same         *)
(* existence, bytes and token): that fails when the path does not exist,   *)
(* for then the load inside replace_record creates the object holding [].  *)
(* What holds: the remote is as it was when the object existed, and is the *)
(* newly created [] when it did not.                                       *)
(***************************************************************************)
\* session s ends a replace_record call with False without having committed
NotFound(s) ==
    /\ Frame(s)' # Frame(s)
    /\ pc[s] # "commit"
    /\ op'[s] = "replace" /\ ret'[s] = "false" /\ pc'[s] = "run"

\* a replace_record call of s loads a collection without the record
LoadsNoMatch(s) ==
    /\ GetStep(s) /\ op'[s] = "replace" /\ status'[s] = 200
    /\ replace_matches(records_of(LoadedNow(remote).data), record_id'[s]) = {}

\* C18 as first stated: not found means False, no commit, remote untouched
C18_OriginalStep ==
    \A s \in Sessions :
        /\ LoadsNoMatch(s) => NotFound(s)
        /\ NotFound(s)
           => /\ writes'[s] = 0 /\ conflicts'[s] = 0
              /\ remote' = remote

C18_Original == [][C18_OriginalStep]_vars

\* C18 amended: not found means False and no commit; the remote is
\* untouched if the object existed, and is the created [] if it did not
C18_NotFoundStep ==
    \A s \in Sessions :
        /\ LoadsNoMatch(s) => (NotFound(s) /\ remote' = remote)
        /\ NotFound(s)
           => /\ writes'[s] = 0 /\ conflicts'[s] = 0
              /\ replace_matches(records_of(LoadedNow(remote').data), record_id'[s]) = {}
              /\ IF remote.exists
                 THEN remote' = remote
                 ELSE /\ pc[s] = "load_put" /\ status'[s] = 201
                      /\ remote'.exists
                      /\ remote'.content = JsonArray(<<>>)
                      /\ truthy(remote'.sha)

C18_NotFound == [][C18_NotFoundStep]_vars

\* replace_record returned False on a path that did not exist: the object
\* now exists and holds []
C18_Witness ==
    \E s \in Sessions :
        /\ op[s] = "replace" /\ ret[s] = "false" /\ pc[s] = "run"
        /\ status[s] = 201 /\ writes[s] = 0 /\ conflicts[s] = 0
        /\ remote.exists /\ remote.content = JsonArray(<<>>)

(***************************************************************************)
(* C19.  A commit of append_with_retry is rejected with 409 only if        *)
(* another session's write was accepted between the attempt's load and the *)
(* commit.  As first stated it follows that when every session calls       *)
(* append_with_retry once, with max_retries at least the number of         *)
(* sessions, and nobody else writes, every call returns True and all the   *)
(* records are in the collection: that fails on a path that does not       *)
(* exist, where the loads race in their creating PUT and the loser raises. *)
(* What holds: no call returns False, every call that returns has returned *)
(* True with its record in the collection, and a call raises only on a     *)
(* remote fault, on JSON that is no array, or on the refusal (422) of its  *)
(* load's creating PUT.                                                    *)
(***************************************************************************)
\* every session has called append_with_retry once, with attempts enough to
\* outlast the others, and no other call was made
OnceEach ==
    /\ calls = Cardinality(Sessions)
    /\ \A s \in Sessions :
          op[s] = "append" /\ max_retries[s] >= Cardinality(Sessions)

\* the call of s is over
Done(s) == pc[s] = "run" /\ ret[s] # "none"

C19_ConflictStep ==
    \A s \in Sessions :
        (CommitStep(s) /\ op[s] = "append")
        => /\ status'[s] = 409 => raced[s]
           /\ (raced[s] /\ ~Faulted(status'[s])) => status'[s] = 409

\* C19 as first stated: remote faults and JSON that is no array apart, every
\* call returns True and all the records are there
C19_OriginalAll ==
    (/\ OnceEach
     /\ \A s \in Sessions : Done(s) /\ ~Faulted(status[s])
     /\ remote.content # JsonObject)
    => \A s \in Sessions :
          ret[s] = "true" /\ Count(Recs(remote), Key(record[s])) >= 1

C19_Original == []C19_OriginalAll /\ [][C19_ConflictStep]_vars

\* C19 amended
C19_NoFalse ==
    OnceEach
    => \A s \in Sessions :
          /\ ret[s] # "false"
          /\ conflicts[s] < Cardinality(Sessions)
          /\ Done(s)
             => \/ ret[s] = "true" /\ Count(Recs(remote), Key(record[s])) >= 1
                \/ ret[s] = "raised" /\ Faulted(status[s])
                \/ ret[s] = "raised" /\ status[s] = 200 /\ remote.content = JsonObject
                \/ ret[s] = "raised" /\ status[s] = 422 /\ attempt[s] = 0

C19_ConflictOnlyIfRaced == []C19_NoFalse /\ [][C19_ConflictStep]_vars

\* both sessions called once: the commit of one was rejected because the
\* other's had been accepted since its load; it slept, loaded again and
\* returned True, and both records are in the collection
C19_Witness ==
    \E s, t \in Sessions :
        /\ OnceEach /\ Done(s) /\ Done(t)
        /\ ret[s] = "true" /\ conflicts[s] = 0 /\ sleeps[s] = 0
        /\ ret[t] = "true" /\ conflicts[t] = 1 /\ sleeps[t] = 1 /\ attempt[t] = 1
        /\ Count(Recs(remote), Key(record[s])) = 1
        /\ Count(Recs(remote), Key(record[t])) = 1

(***************************************************************************)
(* C20.  The creating PUT of load never overwrites an existing object.  It *)
(* is sent without a token, so it is accepted only while the object does   *)
(* not exist; once the object exists it goes on existing, so at most one   *)
(* creating PUT is ever applied.  A load whose creating PUT arrives after  *)
(* another session created or wrote the object is refused, leaves the      *)
(* remote as it is and raises (in the script: st.error and st.stop).       *)
(***************************************************************************)
C20_CreateStep ==
    /\ remote.exists => remote'.exists
    /\ \A s \in Sessions :
          PutStep(s)
          => /\ status'[s] \in {200, 201} <=> (~remote.exists /\ ~Faulted(status'[s]))
             /\ status'[s] \in {200, 201}
                => (status'[s] = 201 /\ remote'.content = JsonArray(<<>>))
             /\ remote.exists
                => /\ remote' = remote
                   /\ pc'[s] = "run"
                   /\ pc[s] = "load_put" => ret'[s] = "raised"
                   /\ pc[s] = "run_put" => app_data'[s] = NoData

C20_CreateOnce == [][C20_CreateStep]_vars

\* a load found the path missing; before its creating PUT another session
\* created the object and appended a record; the PUT was refused and the
\* record is still there
C20_Witness ==
    \E s, t \in Sessions :
        /\ s # t
        /\ status[s] = 422 /\ pc[s] = "run"
        /\ op[t] = "append" /\ ret[t] = "true"
        /\ Recs(remote) = <<record[t]>>

(***************************************************************************)
(* C21.  The object exists and its bytes are not JSON.  An                 *)
(* append_with_retry(path, R) that no other session disturbs loads them as *)
(* the empty list with the object's token, so that what it commits is [R]  *)
(* under that token; the commit, unless the remote fails, is accepted, the *)
(* call returns True on its first attempt without raising, and the bytes   *)
(* at the path are the one-element array [R]: nothing of the bytes before  *)
(* is kept.                                                                *)
(***************************************************************************)
\* the bytes at the path are there and json.loads raises on them
Malformed(r) == r.exists /\ ~json_parses(r.content)

C21_MalformedStep ==
    \A s \in Sessions :
        /\ (/\ GetStep(s)
            /\ op'[s] = "append"
            /\ Malformed(remote)
            /\ ~Faulted(status'[s]))
           => /\ pc'[s] = "commit"
              /\ ret'[s] # "raised"
              /\ data'[s] = PyList(<<record'[s]>>)
              /\ sha'[s] = remote.sha
              /\ remote' = remote
        /\ (/\ CommitStep(s)
            /\ op[s] = "append"
            /\ quiet[s]
            /\ Malformed(remote)
            /\ ~Faulted(status'[s]))
           => /\ status'[s] = 200
              /\ ret'[s] = "true"
              /\ pc'[s] = "run"
              /\ attempt'[s] = 0
              /\ sleeps'[s] = 0
              /\ remote'.exists
              /\ remote'.content = JsonArray(<<record[s]>>)
              /\ LoadedNow(remote').data = PyList(<<record[s]>>)
              /\ discarded'

C21_Malformed == [][C21_MalformedStep]_vars

\* an undisturbed append has returned True and its write, the last one
\* accepted, replaced bytes that were not JSON by [R]
C21_Witness ==
    \E s \in Sessions :
        /\ op[s] = "append" /\ ret[s] = "true" /\ quiet[s] /\ pc[s] = "run"
        /\ discarded
        /\ remote.content = JsonArray(<<record[s]>>)

(***************************************************************************)
(* C22.  Every write of append_with_retry and replace_record carries a     *)
(* token, the one returned by the load just before it in the same call.    *)
(* When the load of a store method returns and the method goes on to its   *)
(* commit, the token it holds is the one of that load (the object's token  *)
(* on 200, the created object's on 201) and is not None; it holds the same *)
(* token and list until its commit is sent; the commit sends that token,   *)
(* so it is never answered as a write without a token is (201, 422), and   *)
(* it is accepted exactly when the token is still the object's.  The write *)
(* sent without a token is the creating PUT of load after a 404.           *)
(***************************************************************************)
\* the load of a store method of s returns and the method goes on to commit
LoadReturns(s) == pc[s] # "commit" /\ pc'[s] = "commit"

C22_TokenStep ==
    \A s \in Sessions :
        /\ LoadReturns(s)
           => /\ status'[s] \in {200, 201}
              /\ status'[s] = 201 <=> pc[s] = "load_put"
              /\ truthy(sha'[s])
              /\ sha'[s] = remote'.sha
        /\ (pc[s] = "commit" /\ pc'[s] = "commit")
           => (sha'[s] = sha[s] /\ data'[s] = data[s])
        /\ CommitStep(s)
           => /\ op[s] \in {"append", "replace"}
              /\ truthy(sha[s])
              /\ commit_payload(data[s], sha[s]).sha = sha[s]
              /\ status'[s] \notin {201, 422}
              /\ status'[s] = 200 <=> (sha[s] = remote.sha /\ ~Faulted(status'[s]))
              /\ status'[s] = 409 <=> (sha[s] # remote.sha /\ ~Faulted(status'[s]))
        /\ PutStep(s)
           => /\ status[s] = 404
              /\ load_create_payload.sha = NoSha
              /\ status'[s] \in {201, 422, 500}

C22_Token == [][C22_TokenStep]_vars

\* the second commit of a call was accepted: it carried the token of the
\* call's second load, the object's at that time, which is newer than the one
\* its first commit carried and than the script's
C22_Witness ==
    \E s \in Sessions :
        /\ pc[s] = "run" /\ op[s] = "append" /\ ret[s] = "true"
        /\ conflicts[s] = 1 /\ writes[s] = 1
        /\ status[s] = 200
        /\ new_sha[s] = remote.sha
        /\ truthy(current_sha[s]) /\ current_sha[s] + 1 < new_sha[s]

====
